---- MODULE Spec2Model ----
(***************************************************************************)
(* A model of the Shopify -> ERPNext order synchronisation of              *)
(* ecommerce_integrations/shopify/order.py.                                *)
(*                                                                         *)
(* Amounts are fixed-point integers in mills (1/1000 of a currency unit),  *)
(* one digit finer than the two decimals the code rounds to, so that       *)
(* round(x, 2) is a real conversion.  Tax rates are in hundredths          *)
(* (0.08 is 8), so rate * amount is in units of 1/100000.                  *)
(*                                                                         *)
(* A Python dict is a function whose DOMAIN is the set of keys present;    *)
(* a value that is not a dict is the function NotADict.  A Python          *)
(* argument that should be a list is PyList(<<...>>) or NotAList.          *)
(*                                                                         *)
(* Eight specifications, each applying functions of the module to inputs   *)
(* drawn by its initial predicate:                                         *)
(*   SpecCalc     calculate_subtotal, calculate_shipping_total,            *)
(*                calculate_taxes                                          *)
(*   SpecItems    get_order_items                                          *)
(*   SpecOrder    create_sales_order and create_order, with no Sales       *)
(*                Order existing yet                                       *)
(*   SpecAccount  get_tax_account_head                                     *)
(*   SpecDay      get_next_working_day and is_more_than_14, with the       *)
(*                clock advancing between the nested invocations           *)
(*   SpecExpand   the expansion of "+"-joined skus in create_sales_order   *)
(*   SpecSync     sync_sales_order, create_order and cancel_order over     *)
(*                the documents and the Shopify Log                        *)
(*   SpecHook     store_request_data of connection.py: validation of the   *)
(*                webhook signature and the job queue                      *)
(***************************************************************************)
EXTENDS Integers, Sequences, FiniteSets, TLC

VARIABLES
    line_items,         \* calculate_*: the line_items argument;
                        \* get_order_items: the order_items argument
    shipping_lines,     \* calculate_*: the shipping_lines argument
    tax_lines,          \* calculate_taxes: the tax_lines argument
    shopify_order,      \* the order payload; get_tax_account_head: its order
    setting,            \* the Shopify Setting document
    discount_field,     \* the value of ORDER_ITEM_DISCOUNT_FIELD
    tax_account_table,  \* "Shopify Tax Account" rows: tax title -> account
    default_accounts,   \* Shopify Setting default accounts, by charge type
    tax_arg,            \* get_tax_account_head: <<tax, charge_type>>
    called,             \* which function has been applied ("none" before)
    result,             \* its outcome: Return(v) or Throw(msg)
    holidays,           \* the dates of the "Holiday" rows
    clock,              \* the wall clock: today's date and the hour
    frame,              \* get_next_working_day: the invocation in progress
    documents,          \* the Sales Orders, Sales Invoices and Delivery Notes
    shopify_log,        \* the Shopify Log: the status of each request
    request,            \* the webhook requests received, the last one served
    job_queue           \* the background jobs enqueued

calcVars == <<line_items, shipping_lines, tax_lines>>
orderVars == <<shopify_order, setting, discount_field>>
accountVars == <<tax_account_table, default_accounts, tax_arg>>
dayVars == <<holidays, clock, frame>>
syncVars == <<documents, shopify_log>>
hookVars == <<request, job_queue>>

vars == <<calcVars, orderVars, accountVars, called, result,
          dayVars, syncVars, hookVars>>

----------------------------------------------------------------------------
(* Bounds of the model. *)

MaxItems == 2      \* longest line_items list drawn
MaxShip == 1       \* longest shipping_lines list drawn
MaxTax == 2        \* longest tax_lines list drawn
MaxOrderItems == 3 \* longest order_items list given to get_order_items
MaxLines == 2      \* most line items of an order

Unit == 10 * 100   \* mills per currency unit
Cent == Unit \div 100

----------------------------------------------------------------------------
(* Python values. *)

NotADict == [__class__ |-> "str"]
IsDict(x) == "__class__" \notin DOMAIN x

PyNone == [__class__ |-> "NoneType"]
\* bool(d) of a dict or None
Truthy(d) == IsDict(d) /\ DOMAIN d # {}

PyList(s) == [type |-> "list", elems |-> s]
NotAList == [type |-> "NoneType"]
IsList(a) == a.type = "list"

\* dict.get(key, default)
Get(d, key, default) == IF key \in DOMAIN d THEN d[key] ELSE default

\* out[key] += val where out[key] = val is meant.
dict_set_accumulate(out, key, val) ==
    [k \in DOMAIN out \cup {key} |->
        IF k = key THEN (IF key \in DOMAIN out THEN out[key] + val ELSE val)
        ELSE out[k]]

\* out[key] = val
dict_set(out, key, val) ==
    [k \in DOMAIN out \cup {key} |-> IF k = key THEN val ELSE out[k]]

EmptyDict == [k \in {} |-> 0]

\* The outcome of a call: a returned value or a raised exception.
Return(v) == [raised |-> FALSE, value |-> v]
Throw(msg) == [raised |-> TRUE, msg |-> msg]
NoResult == [raised |-> FALSE]

\* Truncation to the cent instead of rounding.
round2_truncating(x) == (x \div Cent) * Cent

\* round(x, 2) on an amount in mills: to the nearest cent, ties to even.
round2(x) ==
    LET q == x \div Cent
        r == x % Cent
    IN  IF 2 * r < Cent THEN q * Cent
        ELSE IF 2 * r > Cent THEN (q + 1) * Cent
        ELSE IF q % 2 = 0 THEN q * Cent ELSE (q + 1) * Cent

\* The same rounding of an amount in 1/100000 (a rate times mills), to mills.
round2_of_product(x) == round2((x + 50) \div 100)

----------------------------------------------------------------------------
(* calculate_subtotal, calculate_shipping_total, calculate_taxes. *)

RECURSIVE subtotal_loop(_, _, _)
subtotal_loop(elems, i, subtotal) ==
    IF i > Len(elems) THEN Return(round2(subtotal))
    ELSE LET item == elems[i] IN
        IF ~IsDict(item)
        THEN Throw("Invalid data: Each line item must be a dictionary.")
        ELSE LET price == Get(item, "shopify_rate", 2 * Unit)
                 quantity == Get(item, "qty", 2)
                 total_discount == Get(item, "total_discount", 0)
             IN  IF price < 0 \/ quantity < 0 \/ total_discount < 0
                 THEN Throw("Invalid data: Price, quantity, and discount must be non-negative.")
                 ELSE subtotal_loop(elems, i + 1,
                                    subtotal + (price * quantity) - total_discount)

calculate_subtotal(items) ==
    IF ~IsList(items)
    THEN Throw("Invalid data: 'line_items' should be a list.")
    ELSE subtotal_loop(items.elems, 1, 0)

RECURSIVE shipping_loop(_, _, _)
shipping_loop(elems, i, total_shipping) ==
    IF i > Len(elems) THEN Return(round2(total_shipping))
    ELSE LET shipping == elems[i] IN
        IF ~IsDict(shipping)
        THEN Throw("Invalid data: Each shipping line must be a dictionary.")
        ELSE LET price == Get(shipping, "price", 0) IN
             IF price < 0
             THEN Throw("Invalid data: Shipping price cannot be negative.")
             ELSE shipping_loop(elems, i + 1, total_shipping + price)

calculate_shipping_total(lines) ==
    IF ~IsList(lines)
    THEN Throw("Invalid data: 'shipping_lines' should be a list.")
    ELSE shipping_loop(lines.elems, 1, 0)

RECURSIVE taxes_loop(_, _, _, _)
taxes_loop(elems, i, total_amount, out) ==
    IF i > Len(elems) THEN Return(out)
    ELSE LET tax == elems[i] IN
        IF ~IsDict(tax)
        THEN Throw("Invalid data: Each tax line must be a dictionary.")
        ELSE LET rate == Get(tax, "rate", 0) IN
             IF rate < 0
             THEN Throw("Invalid data: Tax rate cannot be negative.")
             ELSE taxes_loop(elems, i + 1, total_amount,
                             dict_set(out, Get(tax, "title", "None"),
                                      total_amount * rate))

calculate_taxes(items, lines, taxes) ==
    IF ~IsList(taxes)
    THEN Throw("Invalid data: 'tax_lines' should be a list.")
    ELSE LET subtotal == calculate_subtotal(items) IN
         IF subtotal.raised THEN subtotal
         ELSE LET shipping_total == calculate_shipping_total(lines) IN
              IF shipping_total.raised THEN shipping_total
              ELSE LET total_amount == subtotal.value + shipping_total.value IN
                   IF total_amount < 0
                   THEN Throw("Invalid data: Order total cannot be negative.")
                   ELSE taxes_loop(taxes.elems, 1, total_amount, EmptyDict)

----------------------------------------------------------------------------
(* get_tax_account_head. *)

\* frappe.db.get_value("Shopify Tax Account", {shopify_tax: title}, "tax_account")
configured_tax_account(tax_title) == Get(tax_account_table, tax_title, "")

\* frappe.db.get_single_value(SETTING_DOCTYPE, DEFAULT_TAX_FIELDS[charge_type])
configured_default_account(charge_type) == Get(default_accounts, charge_type, "")

\* The configured default tried before the per-title mapping.
tax_account_fallback_default_first(tax_title, charge_type) ==
    LET default == IF charge_type # "None"
                   THEN configured_default_account(charge_type) ELSE ""
        with_title == IF default = "" THEN configured_tax_account(tax_title)
                      ELSE default
    IN  IF with_title = "" THEN "2310 - State Taxes WA - SV" ELSE with_title

tax_account_fallback(tax_title, charge_type) ==
    LET tax_account == configured_tax_account(tax_title)
        with_default == IF tax_account = "" /\ charge_type # "None"
                        THEN configured_default_account(charge_type)
                        ELSE tax_account
    IN  IF with_default = "" THEN "2310 - State Taxes WA - SV" ELSE with_default

region_tax_account(tax, state) ==
    IF state = "WA"
    THEN IF Get(tax, "title", "None") = "Washington State Tax"
         THEN "2310 - State Taxes WA - SV"
         ELSE "2320 - Local Taxes WA - SV"
    ELSE IF state = "FL"
    THEN IF Get(tax, "title", "None") = "Florida State Tax"
         THEN "2330 - State Taxes FL - SV"
         ELSE "2340 - Local Taxes FL - SV"
    ELSE "2350 - Other States - SV"

get_tax_account_head(tax, charge_type, order) ==
    LET tax_title == Get(tax, "title", "None")
        shipping_address == Get(order, "shipping_address", PyNone)
    IN  IF charge_type = "sales_tax" /\ ~Truthy(order)
        THEN "2350 - Other States - SV"
        ELSE IF charge_type = "sales_tax" /\ Truthy(shipping_address)
        THEN IF Get(shipping_address, "province_code", "") # ""
             THEN region_tax_account(tax, shipping_address["province_code"])
             ELSE "2350 - Other States - SV"
        ELSE tax_account_fallback(tax_title, charge_type)

----------------------------------------------------------------------------
(* create_sales_order: the expansion of the order lines by sku. *)

\* A string that is split or stripped is a sequence of characters.

\* str.split(sep, 1): split at the first separator only.
split_once(s, sep) ==
    IF \A i \in 1..Len(s) : s[i] # sep THEN <<s>>
    ELSE LET i == CHOOSE i \in 1..Len(s) :
                     s[i] = sep /\ \A j \in 1..(i - 1) : s[j] # sep
         IN  <<SubSeq(s, 1, i - 1), SubSeq(s, i + 1, Len(s))>>

\* str.split(sep), sep one character
RECURSIVE split(_, _)
split(s, sep) ==
    IF \A i \in 1..Len(s) : s[i] # sep THEN <<s>>
    ELSE LET i == CHOOSE i \in 1..Len(s) :
                     s[i] = sep /\ \A j \in 1..(i - 1) : s[j] # sep
         IN  <<SubSeq(s, 1, i - 1)>> \o split(SubSeq(s, i + 1, Len(s)), sep)

\* str.strip()
RECURSIVE strip(_)
strip(s) ==
    IF s = <<>> THEN s
    ELSE IF Head(s) = " " THEN strip(Tail(s))
    ELSE IF s[Len(s)] = " " THEN strip(SubSeq(s, 1, Len(s) - 1))
    ELSE s

\* The Item doctype: the item codes that exist, and the "Standard Selling"
\* price list (erpnext get_price), in mills.
CatalogItems == {<<"A">>, <<"B">>}
PriceList == (<<"A">> :> 60 * Unit) @@ (<<"B">> :> 50 * Unit)

\* frappe.db.exists("Item", {"item_code": sku})
item_exists(sku) == sku \in CatalogItems

\* get_price(sku, "Standard Selling", ...).get("price_list_rate", 0), else 0
get_price(sku) == IF sku \in DOMAIN PriceList THEN PriceList[sku] ELSE 0

\* line_item.update({...}) of one sku of a line: the dict is the copy of the
\* dict of the previous sku of the same line.
expand_sku(line_item, whole_sku, sku_list, idx) ==
    LET sku == strip(sku_list[idx])
        is_bundle == Len(sku_list) > 1
        item_price == IF is_bundle THEN get_price(sku)
                      ELSE Get(line_item, "price", 0)
    IN  [k \in DOMAIN line_item
              \cup {"sku", "product_exists", "item_name", "price", "shopify_price"} |->
            CASE k = "sku" -> sku
              [] k = "product_exists" -> item_exists(sku)
              [] k = "item_name" ->
                    IF is_bundle THEN <<"Product Bundle > ", whole_sku>>
                    ELSE <<Get(line_item, "item_name", "None")>>
              [] k = "price" -> item_price
              [] k = "shopify_price" -> Get(line_item, "price", 0)
              [] OTHER -> line_item[k]]

RECURSIVE expand_line(_, _, _, _)
expand_line(line_item, whole_sku, sku_list, idx) ==
    IF idx > Len(sku_list) THEN <<>>
    ELSE LET updated == expand_sku(line_item, whole_sku, sku_list, idx)
         IN  <<updated>> \o expand_line(updated, whole_sku, sku_list, idx + 1)

RECURSIVE expand_lines(_, _)
expand_lines(lines, i) ==
    IF i > Len(lines) THEN <<>>
    ELSE LET whole_sku == lines[i]["sku"]
         IN  expand_line(lines[i], whole_sku, split(whole_sku, "+"), 1)
                \o expand_lines(lines, i + 1)

----------------------------------------------------------------------------
(* get_order_items. *)

RECURSIVE sum_field(_, _)
sum_field(dicts, key) ==
    IF dicts = <<>> THEN 0
    ELSE Get(Head(dicts), key, 0) + sum_field(Tail(dicts), key)

get_total_discount(line_item) ==
    sum_field(Get(line_item, "discount_allocations", <<>>), "amount")

\* get_rate(): price - (total_taxes + total_discount) / qty
get_rate(shopify_item) ==
    shopify_item["shopify_price"]
        - ((sum_field(Get(shopify_item, "tax_lines", <<>>), "price")
                + get_total_discount(shopify_item))
            \div shopify_item["quantity"])

\* get_item_code(shopify_item): the Item the line's sku is linked to
get_item_code(shopify_item) == shopify_item["sku"]

\* The dict appended for one line item; both divisions are by the quantity.
order_item_row(shopify_item) ==
    IF shopify_item["quantity"] = 0
    THEN Throw("ZeroDivisionError")
    ELSE LET price ==
                 IF Get(shopify_item, "discount_allocations", <<>>) # <<>>
                 THEN get_rate(shopify_item)
                 ELSE shopify_item["price"]
         IN  Return(dict_set(
                 [item_code |-> get_item_code(shopify_item),
                  price_list_rate |-> price,
                  rate |-> price,
                  shopify_rate |-> shopify_item["shopify_price"],
                  qty |-> shopify_item["quantity"]],
                 discount_field,
                 get_total_discount(shopify_item) \div shopify_item["quantity"]))

RECURSIVE order_items_loop(_, _, _, _)
order_items_loop(order_items, i, all_product_exists, items) ==
    IF i > Len(order_items) THEN Return(items)
    ELSE LET shopify_item == order_items[i] IN
        IF ~Get(shopify_item, "product_exists", FALSE)
        THEN order_items_loop(order_items, i + 1, FALSE, items)
        ELSE IF all_product_exists
        THEN LET row == order_item_row(shopify_item) IN
             IF row.raised THEN row
             ELSE order_items_loop(order_items, i + 1, TRUE,
                                   Append(items, row.value))
        ELSE order_items_loop(order_items, i + 1, FALSE, <<>>)

get_order_items(order_items) == order_items_loop(order_items, 1, TRUE, <<>>)

----------------------------------------------------------------------------
(* get_order_taxes, create_sales_order, create_order. *)

\* One row of taxes per order-level tax line of non-zero rate.
RECURSIVE tax_rows(_, _, _, _)
tax_rows(order, lines, i, tax_details) ==
    IF i > Len(lines) THEN <<>>
    ELSE LET tax_line == lines[i]
             rest == tax_rows(order, lines, i + 1, tax_details)
         IN  IF Get(tax_line, "rate", 0) = 0 THEN rest
             ELSE <<[charge_type |-> "Actual",
                     rate |-> tax_line["rate"],
                     shopify_tax_rate |-> tax_line["rate"] * 100,
                     account_head |->
                         get_tax_account_head(tax_line, "sales_tax", order),
                     description |->
                         <<Get(tax_line, "title", "None"), tax_line["rate"]>>,
                     tax_amount |->
                         Get(tax_details, Get(tax_line, "title", "None"), 0),
                     dont_recompute_tax |-> 1]>> \o rest

\* One item per shipping line: its price less its discount allocations.
RECURSIVE shipping_items(_, _, _)
shipping_items(lines, i, shipping_item) ==
    IF i > Len(lines) THEN <<>>
    ELSE LET shipping_charge == lines[i]
             total_discount ==
                 sum_field(Get(shipping_charge, "discount_allocations", <<>>),
                           "amount")
         IN  <<[item_code |-> shipping_item,
                rate |-> shipping_charge["price"] - total_discount,
                qty |-> 1,
                stock_uom |-> "Nos"]>>
                 \o shipping_items(lines, i + 1, shipping_item)

\* Returns the taxes; the shipping items are appended to the caller's items.
get_order_taxes(order, order_setting, items) ==
    LET tax_details == calculate_taxes(PyList(items),
                                       PyList(order["shipping_lines"]),
                                       PyList(order["tax_lines"]))
    IN  IF tax_details.raised THEN tax_details
        ELSE [raised |-> FALSE,
              value |-> tax_rows(order, order["tax_lines"], 1, tax_details.value),
              items |-> items \o shipping_items(order["shipping_lines"], 1,
                                                order_setting["shipping_item"])]

\* so.save(): the document's grand total, the sum of its item amounts and of
\* its "Actual" tax amounts, at 2 decimals.
RECURSIVE sum_amounts(_)
sum_amounts(items) ==
    IF items = <<>> THEN 0
    ELSE Head(items)["rate"] * Head(items)["qty"] + sum_amounts(Tail(items))

grand_total(items, taxes) ==
    round2(sum_amounts(items)) + round2_of_product(sum_field(taxes, "tax_amount"))

\* same_total = flt(so.grand_total, 2) == flt(shopify_order.get("total_price"), 2)
\* The comparison left out: every order submitted.
same_total_unchecked(doc_total, total_price) == TRUE

same_total(doc_total, total_price) == round2(doc_total) = round2(total_price)

\* frappe.db.get_value("Sales Order", {ORDER_ID_FIELD: id}, "name")
find_sales_order(sales_orders, order_id) ==
    IF \E so \in sales_orders : so["shopify_order_id"] = order_id
    THEN CHOOSE so \in sales_orders : so["shopify_order_id"] = order_id
    ELSE PyNone

\* The outcome of create_sales_order and create_order: the value returned or
\* the exception, the documents inserted, the log statuses written and the
\* document-creating functions called.
Outcome(raised, value, created, logs, calls) ==
    [raised |-> raised, value |-> value, created |-> created, logs |-> logs,
     calls |-> calls]

Raised(exc) == [raised |-> TRUE, msg |-> exc.msg, created |-> <<>>,
                logs |-> <<>>, calls |-> <<>>]

new_sales_order(order, items, taxes) ==
    LET total == grand_total(items, taxes)
        submit == same_total(total, order["total_price"])
    IN  [doctype |-> "Sales Order",
         shopify_order_id |-> order["id"],
         items |-> items,
         taxes |-> taxes,
         shopify_total |-> order["total_price"],
         grand_total |-> total,
         docstatus |-> IF submit THEN 1 ELSE 0,
         comments |-> IF submit THEN <<>> ELSE <<"Order total mismatch">>]

create_sales_order(order, order_setting, sales_orders) ==
    LET so == find_sales_order(sales_orders, order["id"]) IN
    IF Truthy(so) THEN Outcome(FALSE, so, <<>>, <<>>, <<>>)
    ELSE LET items == get_order_items(expand_lines(order["line_items"], 1)) IN
         IF items.raised THEN Raised(items)
         ELSE IF items.value = <<>>
         THEN Outcome(FALSE, NotADict, <<>>, <<"Error">>, <<>>)
         ELSE LET taxes == get_order_taxes(order, order_setting, items.value) IN
              IF taxes.raised THEN Raised(taxes)
              ELSE LET doc == new_sales_order(order, taxes.items, taxes.value)
                   IN  Outcome(FALSE, doc, <<doc>>, <<>>, <<>>)

create_order(order, order_setting, sales_orders) ==
    LET so == create_sales_order(order, order_setting, sales_orders) IN
    IF so.raised \/ ~Truthy(so.value) THEN so
    ELSE Outcome(FALSE, so.value, so.created, so.logs,
                 (IF order["financial_status"] = "paid"
                  THEN <<"create_sales_invoice">> ELSE <<>>)
                 \o (IF order["fulfillments"] # <<>>
                     THEN <<"create_delivery_note">> ELSE <<>>))

----------------------------------------------------------------------------
(* The arguments the calculation functions are applied to. *)

\* A dict over the given keys; a key whose option is <<>> is absent.
MkDict(opt) == [k \in {k \in DOMAIN opt : opt[k] # <<>>} |-> opt[k][1]]

SeqsUpTo(S, n) == UNION {[1..k -> S] : k \in 0..n}

ItemDicts ==
    {MkDict([shopify_rate |-> p, qty |-> q, total_discount |-> d]) :
        p \in {<<>>, <<-2>>, <<1004>>},
        q \in {<<>>, <<-1>>, <<0>>, <<2>>},
        d \in {<<>>, <<-2>>, <<500>>}}

ShippingDicts ==
    {MkDict([price |-> p]) : p \in {<<>>, <<-500>>, <<15 * Unit>>}}

TaxDicts ==
    {MkDict([title |-> t, rate |-> r]) :
        t \in {<<"State Tax">>, <<"County Tax">>},
        r \in {<<>>, <<-1>>, <<0>>, <<8>>}}

ItemArgs ==
    {PyList(s) : s \in SeqsUpTo(ItemDicts \cup {NotADict}, MaxItems)}
        \cup {NotAList}
ShippingArgs ==
    {PyList(s) : s \in SeqsUpTo(ShippingDicts \cup {NotADict}, MaxShip)}
        \cup {NotAList}
TaxArgs ==
    {PyList(s) : s \in SeqsUpTo(TaxDicts \cup {NotADict}, MaxTax)}
        \cup {NotAList}

\* A few well-formed line_items lists, one of them worth less than nothing.
FewItemArgs ==
    {PyList(<<>>),
     PyList(<<[shopify_rate |-> 1004, qty |-> 2, total_discount |-> 500]>>),
     PyList(<<[shopify_rate |-> 1004, qty |-> 2, total_discount |-> 20 * Unit]>>)}

\* The variables of the other specifications, at rest.
NoOrder == PyNone
NoSetting == [k \in {} |-> 0]
NoTable == [k \in {} |-> ""]
NoTaxArg == <<PyNone, "None">>

NoFrame == [pc |-> "idle"]
NoDocuments == [k \in {} |-> <<>>]

DayIdle ==
    /\ holidays = {}
    /\ clock = [today |-> 0, hour |-> 0]
    /\ frame = NoFrame
SyncIdle ==
    /\ documents = NoDocuments
    /\ shopify_log = <<>>
HookIdle ==
    /\ request = <<>>
    /\ job_queue = <<>>
\* The variables of the specifications that come after the first four.
RestIdle == DayIdle /\ SyncIdle /\ HookIdle

OrderIdle ==
    /\ shopify_order = NoOrder
    /\ setting = NoSetting
    /\ discount_field = "shopify_item_discount"
AccountIdle ==
    /\ tax_account_table = NoTable
    /\ default_accounts = NoTable
    /\ tax_arg = NoTaxArg
CalcIdle ==
    /\ line_items = PyList(<<>>)
    /\ shipping_lines = PyList(<<>>)
    /\ tax_lines = PyList(<<>>)

CalcInit ==
    /\ RestIdle
    /\ OrderIdle
    /\ AccountIdle
    /\ \/ /\ line_items \in ItemArgs
          /\ shipping_lines = PyList(<<>>)
          /\ tax_lines = PyList(<<[title |-> "State Tax", rate |-> 8]>>)
       \/ /\ line_items \in FewItemArgs
          /\ shipping_lines \in ShippingArgs
          /\ tax_lines \in TaxArgs
    /\ called = "none"
    /\ result = NoResult

CalculateSubtotal ==
    /\ called = "none"
    /\ called' = "calculate_subtotal"
    /\ result' = calculate_subtotal(line_items)
    /\ UNCHANGED <<calcVars, orderVars, accountVars, dayVars, syncVars, hookVars>>

CalculateShippingTotal ==
    /\ called = "none"
    /\ called' = "calculate_shipping_total"
    /\ result' = calculate_shipping_total(shipping_lines)
    /\ UNCHANGED <<calcVars, orderVars, accountVars, dayVars, syncVars, hookVars>>

CalculateTaxes ==
    /\ called = "none"
    /\ called' = "calculate_taxes"
    /\ result' = calculate_taxes(line_items, shipping_lines, tax_lines)
    /\ UNCHANGED <<calcVars, orderVars, accountVars, dayVars, syncVars, hookVars>>

CalcNext ==
    \/ CalculateSubtotal
    \/ CalculateShippingTotal
    \/ CalculateTaxes

SpecCalc == CalcInit /\ [][CalcNext]_vars

----------------------------------------------------------------------------
(* get_order_items applied to lists of expanded line items. *)

\* ORDER_ITEM_DISCOUNT_FIELD is imported from shopify/constants.py; its value
\* decides whether calculate_subtotal finds a "total_discount" key in the rows
\* of get_order_items, so both outcomes are drawn.
DiscountFields == {"shopify_item_discount", "total_discount"}

\* Amounts are even numbers of mills, so their division by 1 or 2 is exact.
Quantities == {0, 1, 2}
NoAllocations == <<>>
OneAllocation == <<[amount |-> 10 * Unit]>>
LineTaxLines == {<<>>, <<[title |-> "State Tax", rate |-> 8, price |-> 2 * Unit]>>}

ExpandedItems ==
    {[sku |-> IF e THEN <<"A">> ELSE <<"X">>,
      product_exists |-> e,
      price |-> 100 * Unit,
      shopify_price |-> 100 * Unit,
      quantity |-> q,
      discount_allocations |-> d[1],
      tax_lines |-> d[2]] :
        e \in BOOLEAN, q \in Quantities,
        d \in {<<NoAllocations, <<>>>>} \cup ({OneAllocation} \X LineTaxLines)}

ItemsInit ==
    /\ RestIdle
    /\ AccountIdle
    /\ shopify_order = NoOrder
    /\ setting = NoSetting
    /\ discount_field \in DiscountFields
    /\ line_items \in {PyList(l) : l \in SeqsUpTo(ExpandedItems, MaxOrderItems)}
    /\ shipping_lines = PyList(<<>>)
    /\ tax_lines = PyList(<<>>)
    /\ called = "none"
    /\ result = NoResult

GetOrderItems ==
    /\ called = "none"
    /\ called' = "get_order_items"
    /\ result' = get_order_items(line_items.elems)
    /\ UNCHANGED <<calcVars, orderVars, accountVars, dayVars, syncVars, hookVars>>

ItemsNext == GetOrderItems

SpecItems == ItemsInit /\ [][ItemsNext]_vars

----------------------------------------------------------------------------
(* create_sales_order and create_order applied to an order, no Sales Order *)
(* existing yet.                                                           *)

Skus == {<<"A">>, <<"X">>, <<"A", "+", "B">>, <<"A", "+", "X">>}

OrderLines ==
    {[sku |-> k,
      item_name |-> "item",
      price |-> 100 * Unit,
      quantity |-> q,
      discount_allocations |-> d[1],
      tax_lines |-> d[2]] :
        k \in Skus, q \in Quantities,
        d \in {<<NoAllocations, <<>>>>} \cup ({OneAllocation} \X LineTaxLines)}

OrderShippingLines ==
    {[title |-> "Standard", price |-> p, discount_allocations |-> d] :
        p \in {15 * Unit}, d \in {<<>>, <<[amount |-> 5 * Unit]>>}}

OrderTaxLines ==
    {[title |-> t[1], rate |-> t[2]] :
        t \in {<<"Washington State Tax", 8>>, <<"City Tax", 0>>, <<"City Tax", 2>>}}

\* What Shopify reports as total_price: the discounted lines, the discounted
\* shipping and each tax rate applied to their sum, in whole cents.
RECURSIVE lines_total(_)
lines_total(lines) ==
    IF lines = <<>> THEN 0
    ELSE Head(lines)["price"] * Get(Head(lines), "quantity", 1)
            - get_total_discount(Head(lines)) + lines_total(Tail(lines))

shopify_total_price(lines, ships, taxes) ==
    LET net == lines_total(lines) + lines_total(ships)
    IN  net + round2_of_product(net * sum_field(taxes, "rate"))

Order(lines, ships, taxes, address, financial_status, fulfillments) ==
    [id |-> 1001,
     line_items |-> lines,
     shipping_lines |-> ships,
     tax_lines |-> taxes,
     shipping_address |-> address,
     financial_status |-> financial_status,
     fulfillments |-> fulfillments,
     total_price |-> shopify_total_price(lines, ships, taxes)]

Settings ==
    {[add_shipping_as_item |-> 1, shipping_item |-> "Shipping"],
     [add_shipping_as_item |-> 0, shipping_item |-> "Shipping"],
     [add_shipping_as_item |-> 0, shipping_item |-> ""]}

WashingtonAddress == [city |-> "Seattle", province_code |-> "WA"]

\* The spec's end-to-end scenario, and two more line lists.
ScenarioLine ==
    [sku |-> <<"A">>, item_name |-> "item", price |-> 100 * Unit, quantity |-> 2,
     discount_allocations |-> OneAllocation, tax_lines |-> <<>>]
PlainLine ==
    [sku |-> <<"A">>, item_name |-> "item", price |-> 100 * Unit, quantity |-> 1,
     discount_allocations |-> NoAllocations, tax_lines |-> <<>>]
MissingLine ==
    [sku |-> <<"X">>, item_name |-> "item", price |-> 100 * Unit, quantity |-> 1,
     discount_allocations |-> NoAllocations, tax_lines |-> <<>>]
FewLines == {<<ScenarioLine>>, <<PlainLine>>, <<PlainLine, MissingLine>>}

OrderInit ==
    /\ RestIdle
    /\ AccountIdle
    /\ CalcIdle
    /\ discount_field \in DiscountFields
    /\ \/ /\ shopify_order \in
                {Order(l, <<[title |-> "Standard", price |-> 15 * Unit,
                             discount_allocations |-> <<>>]>>,
                       <<[title |-> "Washington State Tax", rate |-> 8]>>,
                       WashingtonAddress, "paid", <<"fulfillment">>) :
                    l \in SeqsUpTo(OrderLines, MaxLines)}
          /\ setting = [add_shipping_as_item |-> 0, shipping_item |-> "Shipping"]
       \/ /\ shopify_order \in
                {Order(l, s, t, WashingtonAddress, f, u) :
                    l \in FewLines,
                    s \in SeqsUpTo(OrderShippingLines, MaxShip),
                    t \in SeqsUpTo(OrderTaxLines, MaxTax),
                    f \in {"paid", "pending"},
                    u \in {<<>>, <<"fulfillment">>}}
          /\ setting \in Settings
    /\ called = "none"
    /\ result = NoResult

CreateSalesOrder ==
    /\ called = "none"
    /\ called' = "create_sales_order"
    /\ result' = create_sales_order(shopify_order, setting, {})
    /\ UNCHANGED <<calcVars, orderVars, accountVars, dayVars, syncVars, hookVars>>

CreateOrder ==
    /\ called = "none"
    /\ called' = "create_order"
    /\ result' = create_order(shopify_order, setting, {})
    /\ UNCHANGED <<calcVars, orderVars, accountVars, dayVars, syncVars, hookVars>>

OrderNext ==
    \/ CreateSalesOrder
    \/ CreateOrder

SpecOrder == OrderInit /\ [][OrderNext]_vars

----------------------------------------------------------------------------
(* get_tax_account_head applied to a tax, a charge type and an order. *)

Taxes ==
    {[title |-> "Washington State Tax"], [title |-> "Florida State Tax"],
     [title |-> "City Tax"]}
ChargeTypes == {"sales_tax", "shipping", "None"}

\* No order, an empty order, and orders with no shipping address, with one
\* that has no region code, and with the regions WA, FL and TX.
AccountOrders ==
    {PyNone, [k \in {} |-> 0], [id |-> 1001],
     [id |-> 1001, shipping_address |-> PyNone],
     [id |-> 1001, shipping_address |-> [city |-> "Reno"]],
     [id |-> 1001, shipping_address |-> [city |-> "Reno", province_code |-> ""]]}
    \cup {[id |-> 1001, shipping_address |-> [city |-> "Reno", province_code |-> r]] :
            r \in {"WA", "FL", "TX"}}

TaxAccountTables ==
    {NoTable,
     "City Tax" :> "2400 - City Tax - SV",
     ("Washington State Tax" :> "2410 - WA Configured - SV")
        @@ ("Florida State Tax" :> "2420 - FL Configured - SV")}

DefaultAccountTables ==
    {NoTable,
     "sales_tax" :> "2500 - Default Sales Tax - SV",
     "shipping" :> "2600 - Default Shipping - SV",
     ("sales_tax" :> "2500 - Default Sales Tax - SV")
        @@ ("shipping" :> "2600 - Default Shipping - SV")}

AccountInit ==
    /\ RestIdle
    /\ CalcIdle
    /\ setting = NoSetting
    /\ discount_field = "shopify_item_discount"
    /\ shopify_order \in AccountOrders
    /\ tax_account_table \in TaxAccountTables
    /\ default_accounts \in DefaultAccountTables
    /\ tax_arg \in Taxes \X ChargeTypes
    /\ called = "none"
    /\ result = NoResult

GetTaxAccountHead ==
    /\ called = "none"
    /\ called' = "get_tax_account_head"
    /\ result' = Return(get_tax_account_head(tax_arg[1], tax_arg[2], shopify_order))
    /\ UNCHANGED <<calcVars, orderVars, accountVars, dayVars, syncVars, hookVars>>

AccountNext == GetTaxAccountHead

SpecAccount == AccountInit /\ [][AccountNext]_vars

----------------------------------------------------------------------------
(* Properties of the calculation functions, under SpecCalc. *)

\* A line-item record that carries a price and a quantity, with price,
\* quantity and discount (when given) all >= 0.
NonNegativeItem(item) ==
    /\ IsDict(item)
    /\ {"shopify_rate", "qty"} \subseteq DOMAIN item
    /\ \A k \in DOMAIN item : item[k] >= 0

\* price x quantity - discount of one item, and its sum over a list.
NetOf(item) == item["shopify_rate"] * item["qty"] - Get(item, "total_discount", 0)

RECURSIVE SumNet(_)
SumNet(s) == IF s = <<>> THEN 0 ELSE NetOf(Head(s)) + SumNet(Tail(s))

\* v is x rounded to 2 decimal places: a whole number of cents nearest to x.
IsRounded2(v, x) ==
    /\ v % Cent = 0
    /\ 2 * (IF v >= x THEN v - x ELSE x - v) <= Cent

\* C1: for every list of item records whose price, quantity and discount are
\* all >= 0, calculate_subtotal returns the sum over the items of
\* (price x quantity - discount), rounded to 2 decimal places.
C1_SubtotalIsRoundedSum ==
    (/\ called = "calculate_subtotal"
     /\ IsList(line_items)
     /\ \A i \in 1..Len(line_items.elems) : NonNegativeItem(line_items.elems[i]))
    => /\ ~result.raised
       /\ IsRounded2(result.value, SumNet(line_items.elems))

\* Two valid items with discounts whose sum is not a whole number of cents.
C1_Witness ==
    /\ called = "calculate_subtotal"
    /\ IsList(line_items)
    /\ Len(line_items.elems) = 2
    /\ \A i \in 1..2 : /\ NonNegativeItem(line_items.elems[i])
                       /\ "total_discount" \in DOMAIN line_items.elems[i]
                       /\ NetOf(line_items.elems[i]) > 0
    /\ ~result.raised
    /\ result.value # SumNet(line_items.elems)

TitleOf(tax) == Get(tax, "title", "None")

\* C3: calculate_taxes returns a mapping whose keys are exactly the titles of
\* the tax lines (those of rate 0 included), each title mapped to
\* (subtotal + shipping total) x the rate of the last tax line of that title.
C3_TaxesKeyedByTitleLastWins ==
    (called = "calculate_taxes" /\ ~result.raised)
    => LET lines == tax_lines.elems
           total == calculate_subtotal(line_items).value
                        + calculate_shipping_total(shipping_lines).value
       IN  /\ DOMAIN result.value = {TitleOf(lines[i]) : i \in 1..Len(lines)}
           /\ \A i \in 1..Len(lines) :
                (\A j \in (i + 1)..Len(lines) : TitleOf(lines[j]) # TitleOf(lines[i]))
                => result.value[TitleOf(lines[i])] = total * Get(lines[i], "rate", 0)

\* Two tax lines of one title on a positive total, the last of rate 0.
C3_Witness ==
    /\ called = "calculate_taxes"
    /\ ~result.raised
    /\ Len(tax_lines.elems) = 2
    /\ TitleOf(tax_lines.elems[1]) = TitleOf(tax_lines.elems[2])
    /\ Get(tax_lines.elems[1], "rate", 0) > 0
    /\ "rate" \in DOMAIN tax_lines.elems[2]
    /\ tax_lines.elems[2]["rate"] = 0
    /\ calculate_subtotal(line_items).value > 0
    /\ result.value[TitleOf(tax_lines.elems[2])] = 0

\* An argument the contract calls invalid: not a list, an element that is not
\* a record, an item lacking its price or quantity, or a negative number.
HasNegative(d) == \E k \in DOMAIN d \ {"title"} : d[k] < 0

InvalidItemsArg(a) ==
    \/ ~IsList(a)
    \/ \E i \in 1..Len(a.elems) :
          \/ ~IsDict(a.elems[i])
          \/ ~({"shopify_rate", "qty"} \subseteq DOMAIN a.elems[i])
          \/ HasNegative(a.elems[i])

InvalidLinesArg(a) ==
    \/ ~IsList(a)
    \/ \E i \in 1..Len(a.elems) : ~IsDict(a.elems[i]) \/ HasNegative(a.elems[i])

\* C4: calculate_subtotal, calculate_shipping_total and calculate_taxes raise
\* whenever an argument is not a list, an element is not a well-formed record
\* (one lacking its price or quantity included), or a number is negative.
C4_InvalidInputAlwaysRaises ==
    /\ (called = "calculate_subtotal" /\ InvalidItemsArg(line_items))
        => result.raised
    /\ (called = "calculate_shipping_total" /\ InvalidLinesArg(shipping_lines))
        => result.raised
    /\ (called = "calculate_taxes"
            /\ (\/ InvalidItemsArg(line_items)
                \/ InvalidLinesArg(shipping_lines)
                \/ InvalidLinesArg(tax_lines)))
        => result.raised

\* The part of C4 the code does keep: a non-list, a non-record element and a
\* negative number are rejected by all three functions.
C4_NegativeOrNonRecordRaises ==
    LET Bad(a) == \/ ~IsList(a)
                  \/ \E i \in 1..Len(a.elems) :
                        ~IsDict(a.elems[i]) \/ HasNegative(a.elems[i])
    IN  /\ (called = "calculate_subtotal" /\ Bad(line_items)) => result.raised
        /\ (called = "calculate_shipping_total" /\ Bad(shipping_lines))
            => result.raised
        /\ (called = "calculate_taxes"
                /\ (Bad(line_items) \/ Bad(shipping_lines) \/ Bad(tax_lines)))
            => result.raised

----------------------------------------------------------------------------
(* Properties of get_order_items, under SpecItems. *)

SomeItemMissing(order_items) ==
    \E i \in 1..Len(order_items) : ~order_items[i]["product_exists"]

\* C5: whenever at least one of the given line items has no catalog item,
\* the item list get_order_items returns is empty, whatever the position of
\* the missing item (first, middle or last) and the number of line items.
C5_EmptyWhenAnyItemMissing ==
    (/\ called = "get_order_items"
     /\ SomeItemMissing(line_items.elems)
     /\ ~result.raised)
    => result.value = <<>>

\* What the code does return: nothing when a line with a catalog item follows
\* a missing one, else the rows of the lines before the first missing one.
C5_EmptyOnlyWhenFollowedByExisting ==
    (called = "get_order_items" /\ ~result.raised)
    => LET l == line_items.elems
           Missing == {i \in 1..Len(l) : ~l[i]["product_exists"]}
           Followed == \E i \in Missing : \E j \in (i + 1)..Len(l) :
                            l[j]["product_exists"]
       IN  IF Followed THEN result.value = <<>>
           ELSE Len(result.value) = Len(l) - Cardinality(Missing)

----------------------------------------------------------------------------
(* Properties of the order flow, under SpecOrder. *)

OrderCalled == called \in {"create_sales_order", "create_order"}

\* The order lines after their expansion by sku.
Expanded == expand_lines(shopify_order["line_items"], 1)

\* A Sales Order was inserted by the call.
SalesOrderCreated == OrderCalled /\ ~result.raised /\ result.created # <<>>

\* Sum of the shipping-line prices.
ShippingPrices == sum_field(shopify_order["shipping_lines"], "price")

\* The spec's scenario: price 100.00, quantity 2, discount 10.00, one shipping
\* line of 15.00, one tax line of rate 0.08.
IsScenario ==
    /\ shopify_order["line_items"] = <<ScenarioLine>>
    /\ shopify_order["shipping_lines"] =
          <<[title |-> "Standard", price |-> 15 * Unit, discount_allocations |-> <<>>]>>
    /\ Len(shopify_order["tax_lines"]) = 1
    /\ shopify_order["tax_lines"][1]["rate"] = 8

\* Every line of the order is one sku that has a catalog item.
PlainLines ==
    /\ ~SomeItemMissing(Expanded)
    /\ \A i \in 1..Len(shopify_order["line_items"]) :
            Len(shopify_order["line_items"][i]["sku"]) = 1

\* C2: in the order flow, the amount each order-level tax rate is applied to
\* is the sum over the line items of (unit price x quantity - the item's
\* discount allocations) plus the sum of the shipping-line prices; in the
\* scenario the tax row's amount is 16.40 (8 hundredths of 205.00).  Stated
\* for orders whose lines are single skus with catalog items.
C2_TaxBaseIsNetLinesPlusShipping ==
    (SalesOrderCreated /\ PlainLines)
    => LET taxes == result.created[1]["taxes"]
           lines == shopify_order["tax_lines"]
           base == lines_total(shopify_order["line_items"]) + ShippingPrices
       IN  /\ \A i \in 1..Len(taxes) :
                (\A j, k \in 1..Len(lines) :
                    lines[j]["title"] = lines[k]["title"] => j = k)
                => taxes[i]["tax_amount"] = taxes[i]["rate"] * base
           /\ IsScenario =>
                /\ base = 205 * Unit
                /\ Len(taxes) = 1
                /\ taxes[1]["tax_amount"] = 8 * 205 * Unit

\* The part of C2 that holds: without discount allocations, on plain (one-sku)
\* lines that all have a catalog item, each rate is applied to the lines plus
\* the shipping prices.
C2_TaxBaseWithoutDiscounts ==
    (/\ SalesOrderCreated
     /\ PlainLines
     /\ \A i \in 1..Len(shopify_order["line_items"]) :
            shopify_order["line_items"][i]["discount_allocations"] = <<>>)
    => LET taxes == result.created[1]["taxes"]
           lines == shopify_order["tax_lines"]
           base == lines_total(shopify_order["line_items"]) + ShippingPrices
       IN  \A i \in 1..Len(taxes) :
                (\A j, k \in 1..Len(lines) :
                    lines[j]["title"] = lines[k]["title"] => j = k)
                => taxes[i]["tax_amount"] = taxes[i]["rate"] * base

\* C6: when a line item of the order (or a component of a bundle sku) has no
\* catalog Item, create_sales_order raises no exception, creates no Sales
\* Order, logs an Error and returns an empty result, and create_order creates
\* no invoice or delivery note.  Stated for lines of quantity 1 or more.
C6_MissingItemCreatesNothing ==
    (/\ OrderCalled
     /\ SomeItemMissing(Expanded)
     /\ \A i \in 1..Len(Expanded) : Expanded[i]["quantity"] > 0)
    => /\ ~result.raised
       /\ result.created = <<>>
       /\ ~Truthy(result.value)
       /\ result.logs = <<"Error">>
       /\ result.calls = <<>>

\* C9: create_sales_order saves the Sales Order once items exist; it submits
\* it if and only if the document's grand total equals Shopify's total_price
\* at 2 decimals; otherwise the order stays a draft with an "Order total
\* mismatch" comment, and no exception is raised.
C9_MismatchIsDraftWithComment ==
    LET items == get_order_items(Expanded) IN
    (OrderCalled /\ ~items.raised /\ items.value # <<>>)
    => /\ ~result.raised
       /\ Len(result.created) = 1
       /\ result.value = result.created[1]
       /\ LET so == result.created[1]
              equal == round2(so["grand_total"]) = round2(shopify_order["total_price"])
          IN  /\ so["docstatus"] \in {0, 1}
              /\ so["docstatus"] = 1 <=> equal
              /\ so["docstatus"] = 0 <=> so["comments"] = <<"Order total mismatch">>
              /\ so["docstatus"] = 1 => so["comments"] = <<>>
              /\ so["grand_total"] = grand_total(so["items"], so["taxes"])

\* A draft left by a mismatch: Shopify's total is 221.40, the document's is not.
C9_Witness ==
    /\ called = "create_sales_order"
    /\ IsScenario
    /\ ~result.raised
    /\ Len(result.created) = 1
    /\ result.created[1]["docstatus"] = 0
    /\ result.created[1]["grand_total"] # shopify_order["total_price"]
    /\ result.created[1]["comments"] = <<"Order total mismatch">>

\* An order whose totals agree is submitted.
C9_SubmittedReached ==
    /\ called = "create_sales_order"
    /\ ~result.raised
    /\ Len(result.created) = 1
    /\ result.created[1]["docstatus"] = 1
    /\ Len(shopify_order["tax_lines"]) > 0

\* A shipping item and a shipping ledger row of a Sales Order.
IsShippingItem(item) == "shopify_rate" \notin DOMAIN item
IsShippingRow(row) == "rate" \notin DOMAIN row
CountIn(rows, P(_)) == Cardinality({i \in 1..Len(rows) : P(rows[i])})

ShippingAsItem ==
    setting["add_shipping_as_item"] = 1 /\ setting["shipping_item"] # ""

\* C10: the deployment setting (add_shipping_as_item with a configured
\* shipping item) decides whether a shipping charge becomes an item or a
\* ledger row: with the setting off each shipping charge yields one ledger
\* row in taxes and no shipping item, with it on one shipping item (price
\* minus its shipping discounts) and no ledger row.
C10_SettingDecidesShippingPresentation ==
    SalesOrderCreated
    => LET so == result.created[1]
           n == Len(shopify_order["shipping_lines"])
       IN  IF ShippingAsItem
           THEN /\ CountIn(so["items"], IsShippingItem) = n
                /\ CountIn(so["taxes"], IsShippingRow) = 0
           ELSE /\ CountIn(so["items"], IsShippingItem) = 0
                /\ CountIn(so["taxes"], IsShippingRow) = n

\* What the code does: a shipping item for every shipping charge, whatever
\* the setting, at the price less the shipping discounts; never a ledger row.
C10_ShippingIsAlwaysAnItem ==
    SalesOrderCreated
    => LET so == result.created[1]
           ships == shopify_order["shipping_lines"]
           first == Len(so["items"]) - Len(ships)
       IN  /\ CountIn(so["items"], IsShippingItem) = Len(ships)
           /\ CountIn(so["taxes"], IsShippingRow) = 0
           /\ \A i \in 1..Len(ships) :
                so["items"][first + i]["rate"] =
                    ships[i]["price"]
                        - sum_field(ships[i]["discount_allocations"], "amount")

----------------------------------------------------------------------------
(* Properties of get_tax_account_head, under SpecAccount. *)

AccountCalled == called = "get_tax_account_head"

\* The region code of the order's shipping address, "" when there is no
\* order, no shipping address or no code.
RegionOf(order) ==
    IF ~Truthy(order) THEN ""
    ELSE Get(Get(order, "shipping_address", PyNone), "province_code", "")

\* The account C7 gives for a tax title and a region.
RegionAccount(title, region) ==
    CASE region = "WA" ->
            IF title = "Washington State Tax" THEN "2310 - State Taxes WA - SV"
            ELSE "2320 - Local Taxes WA - SV"
      [] region = "FL" ->
            IF title = "Florida State Tax" THEN "2330 - State Taxes FL - SV"
            ELSE "2340 - Local Taxes FL - SV"
      [] OTHER -> "2350 - Other States - SV"

\* C7: for charge_type "sales_tax", get_tax_account_head is a function of the
\* tax title and the shipping region code alone: the WA and FL rules, and
\* "2350 - Other States - SV" for any other region or a missing region,
\* whatever the per-deployment mapping and default accounts contain.
C7_SalesTaxAccountByRegion ==
    (AccountCalled /\ tax_arg[2] = "sales_tax")
    => result.value = RegionAccount(tax_arg[1]["title"], RegionOf(shopify_order))

\* The part of C7 that holds: with no order, or with an order that has a
\* shipping address.
C7_ByRegionWhenAddressGiven ==
    (/\ AccountCalled
     /\ tax_arg[2] = "sales_tax"
     /\ (~Truthy(shopify_order)
            \/ Truthy(Get(shopify_order, "shipping_address", PyNone))))
    => result.value = RegionAccount(tax_arg[1]["title"], RegionOf(shopify_order))

\* The account mapped to the title, else the configured default of the
\* charge type, else the hard-coded default.
ConfiguredAccount(title, charge_type) ==
    IF title \in DOMAIN tax_account_table THEN tax_account_table[title]
    ELSE IF charge_type \in DOMAIN default_accounts
    THEN default_accounts[charge_type]
    ELSE "2310 - State Taxes WA - SV"

\* C8 as stated: whenever the region rules do not apply (charge_type is not
\* "sales_tax", or no order is given, or the order has no shipping address
\* carrying a region code), the result is the account mapped to the title,
\* else the configured default for the charge_type, else the hard-coded one.
C8_ConfiguredWheneverNoRegion ==
    (AccountCalled /\ (tax_arg[2] # "sales_tax" \/ RegionOf(shopify_order) = ""))
    => result.value = ConfiguredAccount(tax_arg[1]["title"], tax_arg[2])

\* C8 as amended: the configured accounts are consulted, in that priority
\* order, when charge_type is not "sales_tax", or when an order is given and
\* it has no shipping address.
C8_ConfiguredWhenNotSalesTaxOrNoAddress ==
    (/\ AccountCalled
     /\ \/ tax_arg[2] # "sales_tax"
        \/ /\ Truthy(shopify_order)
           /\ ~Truthy(Get(shopify_order, "shipping_address", PyNone)))
    => result.value = ConfiguredAccount(tax_arg[1]["title"], tax_arg[2])

\* A shipping charge whose title is mapped while a default is configured too.
C8_Witness ==
    /\ AccountCalled
    /\ tax_arg[2] = "shipping"
    /\ tax_arg[1]["title"] \in DOMAIN tax_account_table
    /\ "shipping" \in DOMAIN default_accounts
    /\ result.value = tax_account_table[tax_arg[1]["title"]]

----------------------------------------------------------------------------
(* is_more_than_14 and get_next_working_day.                                *)
(*                                                                         *)
(* A date is a day number, day 0 a Friday; frappe.utils.add_days adds to   *)
(* it.  The function calls itself once per holiday it meets: an invocation *)
(* is one step, and the clock may advance between two invocations.         *)

MaxHolidays == 3   \* the calendar may flag the dates 0..MaxHolidays

WeekDays == <<"Friday", "Saturday", "Sunday", "Monday", "Tuesday", "Wednesday",
              "Thursday">>
weekday(date) == WeekDays[(date % Len(WeekDays)) + 1]

LastHour == 24 - 1

\* strftime("%H"): the hour as two decimal digits
Digits == <<"0", "1", "2", "3", "4", "5", "6", "7", "8", "9">>
strftime_H(hour) == <<Digits[(hour \div 10) + 1], Digits[(hour % 10) + 1]>>

\* a >= b on strings of digits: by the first character that differs, a proper
\* prefix being the smaller
ord(c) == CHOOSE i \in 1..Len(Digits) : Digits[i] = c

RECURSIVE str_ge(_, _)
str_ge(a, b) ==
    IF b = <<>> THEN TRUE
    ELSE IF a = <<>> THEN FALSE
    ELSE IF Head(a) # Head(b) THEN ord(Head(a)) > ord(Head(b))
    ELSE str_ge(Tail(a), Tail(b))

\* hour >= "14"
is_more_than_14(hour) == str_ge(strftime_H(hour), <<"1", "4">>)

\* frappe.db.exists("Holiday", {"holiday_date": date})
isholiday(date) == date \in holidays

\* The nested call made with the cutoff left free to apply again.
nested_call_may_advance(date) == [date |-> <<date + 1>>, dont_change_date |-> FALSE]

\* get_next_working_day(frappe.utils.add_days(date, 1), dont_change_date=True)
nested_call(date) == [date |-> <<date + 1>>, dont_change_date |-> TRUE]

\* One invocation with the arguments args: the date it looks up, whether it
\* moved the date by the cutoff, and either the date returned or the
\* arguments of the nested call.  No date given is <<>>.
invocation(args, now) ==
    LET given == IF args.date = <<>> THEN now.today ELSE args.date[1]
        moved == is_more_than_14(now.hour) /\ ~args.dont_change_date
        date == IF moved THEN given + 1 ELSE given
    IN  [moved |-> moved,
         returns |-> ~isholiday(date),
         date |-> date,
         nested |-> nested_call(date)]

\* The call in progress: its own arguments, the clock read by its first
\* invocation (set when that one runs), the arguments of the invocation to
\* run next, how many invocations have run and how many of them moved the
\* date by the cutoff.
Call(args, now) ==
    [pc |-> "call", args |-> args, made_at |-> now, next |-> args,
     depth |-> 0, moves |-> 0]

DateArgs == {<<>>} \cup {<<d>> : d \in 0..1}

DayInit ==
    /\ CalcIdle
    /\ OrderIdle
    /\ AccountIdle
    /\ SyncIdle
    /\ HookIdle
    /\ called = "none"
    /\ result = NoResult
    /\ holidays \in SUBSET (0..MaxHolidays)
    /\ clock \in [today : {0}, hour : 0..LastHour]
    /\ frame \in {Call([date |-> d, dont_change_date |-> f], clock) :
                    d \in DateArgs, f \in BOOLEAN}

\* One invocation of get_next_working_day, nested or not.
GetNextWorkingDay ==
    /\ frame.pc = "call"
    /\ LET inv == invocation(frame.next, clock)
           ran == [frame EXCEPT !.depth = @ + 1,
                                !.moves = IF inv.moved THEN @ + 1 ELSE @,
                                !.made_at = IF frame.depth = 0 THEN clock ELSE @]
       IN  IF inv.returns
           THEN /\ frame' = [ran EXCEPT !.pc = "done"]
                /\ result' = Return(inv.date)
                /\ called' = "get_next_working_day"
           ELSE /\ frame' = [ran EXCEPT !.next = inv.nested]
                /\ UNCHANGED <<result, called>>
    /\ UNCHANGED <<calcVars, orderVars, accountVars, holidays, clock,
                   syncVars, hookVars>>

\* An hour passes, before the call or between two invocations.
Tick ==
    /\ frame.pc = "call"
    /\ clock.hour < LastHour
    /\ clock' = [clock EXCEPT !.hour = @ + 1]
    /\ UNCHANGED <<calcVars, orderVars, accountVars, holidays, frame,
                   called, result, syncVars, hookVars>>

DayNext ==
    \/ GetNextWorkingDay
    \/ Tick

\* The function is synchronous: a call in progress runs its next invocation.
SpecDay == DayInit /\ [][DayNext]_vars /\ WF_vars(GetNextWorkingDay)

\* The base date of the call: the date given (today when none is), plus one
\* day if the call was made at or past 14:00 with dont_change_date false.
BaseDate ==
    (IF frame.args.date = <<>> THEN frame.made_at.today ELSE frame.args.date[1])
        + (IF frame.made_at.hour >= 14 /\ ~frame.args.dont_change_date
           THEN 1 ELSE 0)

DayReturned == frame.pc = "done"

\* C11: get_next_working_day terminates, and it returns the first date on or
\* after the base date that is not a holiday, the base date being date + 1
\* if the call is made at or past 14:00 with dont_change_date false and date
\* otherwise; the one-day cutoff advance is applied at most once, never again
\* while holidays are skipped.
C11_ReturnsFirstWorkingDayFromBase ==
    /\ <>DayReturned
    /\ [](DayReturned =>
            /\ ~result.raised
            /\ result.value >= BaseDate
            /\ result.value \notin holidays
            /\ \A d \in BaseDate..(result.value - 1) : d \in holidays
            /\ frame.moves <= 1
            /\ frame.moves = 1 <=>
                    (frame.made_at.hour >= 14 /\ ~frame.args.dont_change_date))

\* Called on a Friday past 14:00 with Saturday and Sunday holidays: Monday.
C11_Witness ==
    /\ DayReturned
    /\ frame.args = [date |-> <<0>>, dont_change_date |-> FALSE]
    /\ weekday(0) = "Friday"
    /\ frame.made_at.hour >= 14
    /\ holidays = {1, 2}
    /\ weekday(result.value) = "Monday"
    /\ frame.depth = 3
    /\ frame.moves = 1

----------------------------------------------------------------------------
(* create_sales_order: the loop that expands the order lines by sku,       *)
(* applied to the lines of an order.                                       *)

\* Skus as merchants type them: one item code, or item codes joined by "+",
\* with or without blanks around them.
TypedSkus ==
    {<<"A">>, <<"X">>, <<" ", "A">>,
     <<"A", "+", "B">>, <<"A", " ", "+", " ", "B">>, <<"B", "+", "X", "+", "A">>}

TypedLines ==
    {[sku |-> k, item_name |-> "item", price |-> p * Unit, quantity |-> q,
      discount_allocations |-> <<>>, tax_lines |-> <<>>] :
        k \in TypedSkus, p \in {80, 100}, q \in {1, 3}}

ExpandInit ==
    /\ AccountIdle
    /\ CalcIdle
    /\ RestIdle
    /\ discount_field = "shopify_item_discount"
    /\ setting = [add_shipping_as_item |-> 0, shipping_item |-> "Shipping"]
    /\ shopify_order \in
          {Order(l, <<>>, <<>>, WashingtonAddress, "pending", <<>>) :
              l \in SeqsUpTo(TypedLines, MaxLines)}
    /\ called = "none"
    /\ result = NoResult

\* The loop over shopify_order.get("line_items"): the list line_items built.
ExpandLineItems ==
    /\ called = "none"
    /\ called' = "expand_lines"
    /\ result' = Return(expand_lines(shopify_order["line_items"], 1))
    /\ UNCHANGED <<calcVars, orderVars, accountVars, dayVars, syncVars, hookVars>>

ExpandNext == ExpandLineItems

SpecExpand == ExpandInit /\ [][ExpandNext]_vars

\* The positions of the "+" signs of a sku, and its k-th part: what lies
\* between the (k-1)-th and the k-th "+".
Pluses(sku) == {i \in 1..Len(sku) : sku[i] = "+"}

PartOf(sku, k) ==
    LET Before(i) == Cardinality({j \in Pluses(sku) : j < i})
        Inside == {i \in 1..Len(sku) : sku[i] # "+" /\ Before(i) = k - 1}
    IN  [n \in 1..Cardinality(Inside) |->
            sku[CHOOSE i \in Inside : Cardinality({j \in Inside : j <= i}) = n]]

\* A part without the blanks before its first and after its last other
\* character.
Trimmed(part) ==
    LET Solid == {i \in 1..Len(part) : part[i] # " "}
    IN  IF Solid = {} THEN <<>>
        ELSE SubSeq(part, CHOOSE i \in Solid : \A j \in Solid : i <= j,
                          CHOOSE i \in Solid : \A j \in Solid : i >= j)

\* The number of sub-items of the lines before line i.
RECURSIVE SubItemsBefore(_, _)
SubItemsBefore(lines, i) ==
    IF i = 1 THEN 0
    ELSE SubItemsBefore(lines, i - 1) + Cardinality(Pluses(lines[i - 1]["sku"])) + 1

\* The sub-items follow the lines: line i gives one sub-item per part of its
\* sku, in order, the k-th with the sku SkuOf(part k) and the line's
\* quantity; a line without "+" gives one sub-item with the line's price.
ExpandedAs(SkuOf(_)) ==
    LET lines == shopify_order["line_items"]
        subs == result.value
    IN  /\ Len(subs) = SubItemsBefore(lines, Len(lines) + 1)
        /\ \A i \in 1..Len(lines) :
             LET sku == lines[i]["sku"]
                 n == Cardinality(Pluses(sku)) + 1
                 at == SubItemsBefore(lines, i)
             IN  /\ \A k \in 1..n :
                       /\ subs[at + k]["sku"] = SkuOf(PartOf(sku, k))
                       /\ subs[at + k]["quantity"] = lines[i]["quantity"]
                 /\ n = 1 => /\ subs[at + 1]["price"] = lines[i]["price"]
                             /\ subs[at + 1]["shopify_price"] = lines[i]["price"]

Untouched(part) == part

\* C12 as stated: every order line is expanded by splitting its sku on "+":
\* sku "A+B" yields exactly two sub-items with skus "A" and "B" in that
\* order, each keeping the line's quantity, and a sku without "+" yields
\* exactly one sub-item whose sku and price are those of the line.
C12_SubItemsCarryTheSkuParts ==
    called = "expand_lines" => ExpandedAs(Untouched)

\* C12 as amended: the sku of each sub-item is the part of the line's sku
\* without the blanks around it.
C12_SubItemsCarryTheTrimmedSkuParts ==
    called = "expand_lines" => ExpandedAs(Trimmed)

\* Sku "A + B" with quantity 3 gives the sub-items "A" and "B", quantity 3,
\* and a following line of sku "X" gives a third sub-item at its own price.
C12_Witness ==
    /\ called = "expand_lines"
    /\ Len(shopify_order["line_items"]) = 2
    /\ shopify_order["line_items"][1]["sku"] = <<"A", " ", "+", " ", "B">>
    /\ shopify_order["line_items"][1]["quantity"] = 3
    /\ shopify_order["line_items"][2]["sku"] = <<"X">>
    /\ Len(result.value) = 3
    /\ result.value[1]["sku"] = <<"A">>
    /\ result.value[2]["sku"] = <<"B">>
    /\ result.value[2]["quantity"] = 3
    /\ result.value[3]["sku"] = <<"X">>
    /\ result.value[3]["price"] = shopify_order["line_items"][2]["price"]

----------------------------------------------------------------------------
(* Division by the quantity in get_order_items, under SpecItems. *)

DivisionByZero == result.raised /\ result.msg = "ZeroDivisionError"

\* C13: the per-unit proration of discount and tax is guarded against a zero
\* quantity: whatever the line items, those of quantity 0 with a catalog item
\* included (with or without discount allocations), get_order_items does not
\* fail with a division by zero.
C13_ZeroQuantityIsGuarded ==
    called = "get_order_items" => ~DivisionByZero

\* What the code does: it divides by the quantity of every line item it
\* builds a row for, so it fails exactly when a line of quantity 0 that has
\* a catalog item comes before the first line that has none.
C13_FailsOnZeroQuantityRow ==
    called = "get_order_items"
    => LET l == line_items.elems
           Built == {i \in 1..Len(l) :
                        \A j \in 1..i : l[j]["product_exists"]}
       IN  DivisionByZero <=> \E i \in Built : l[i]["quantity"] = 0

----------------------------------------------------------------------------
(* sync_sales_order, create_order and cancel_order on the documents of the *)
(* database, one call at a time.                                           *)

\* The documents of a doctype that carry the Shopify order id, in the order
\* of their insertion.
with_order_id(docs, order_id) ==
    SelectSeq(docs, LAMBDA d : d["shopify_order_id"] = order_id)

\* frappe.db.get_value("Sales Order",
\*     filters={ORDER_ID_FIELD: cstr(order["id"]), "docstatus": ["!=", 2]})
open_sales_order_exists(docs, order_id) ==
    \E i \in 1..Len(docs.sales_orders) :
        /\ docs.sales_orders[i]["shopify_order_id"] = order_id
        /\ docs.sales_orders[i]["docstatus"] # 2

\* create_sales_invoice and create_delivery_note are called by create_order;
\* each inserts its document, unless the order (its one fulfillment) has one
\* already, or declines to (made).
create_sales_invoice(docs, order, made) ==
    IF made /\ with_order_id(docs.sales_invoices, order["id"]) = <<>>
    THEN [docs EXCEPT !.sales_invoices =
            Append(@, [doctype |-> "Sales Invoice",
                       shopify_order_id |-> order["id"]])]
    ELSE docs

create_delivery_note(docs, order, made) ==
    IF made /\ with_order_id(docs.delivery_notes, order["id"]) = <<>>
    THEN [docs EXCEPT !.delivery_notes =
            Append(@, [doctype |-> "Delivery Note",
                       shopify_order_id |-> order["id"]])]
    ELSE docs

\* The documents after a create_order that returned: the Sales Order it
\* inserted, and what the functions it called inserted.
documents_after(docs, order, out, invoice_made, note_made) ==
    LET with_order == [docs EXCEPT !.sales_orders = @ \o out.created]
        with_invoice ==
            IF \E i \in 1..Len(out.calls) : out.calls[i] = "create_sales_invoice"
            THEN create_sales_invoice(with_order, order, invoice_made)
            ELSE with_order
    IN  IF \E i \in 1..Len(out.calls) : out.calls[i] = "create_delivery_note"
        THEN create_delivery_note(with_invoice, order, note_made)
        ELSE with_invoice

\* The outcome of a handler: the documents it leaves and the statuses it
\* wrote, in order, to the log of its request.
Handled(docs, statuses) == [documents |-> docs, statuses |-> statuses]

\* The Sales Orders a lookup may find.
sales_orders_of(docs) == {docs.sales_orders[i] : i \in 1..Len(docs.sales_orders)}

\* What follows a create_order that ended as out: inside sync_sales_order
\* (try / except / else), and called on its own, where an exception goes to
\* the caller.
after_create_order(docs, order, out, invoice_made, note_made, in_sync) ==
    IF out.raised
    \* create_shopify_log(status="Error", exception=e, rollback=True)
    THEN Handled(docs, IF in_sync THEN <<"Error">> ELSE <<>>)
    ELSE Handled(documents_after(docs, order, out, invoice_made, note_made),
                 out.logs \o (IF in_sync THEN <<"Success">> ELSE <<>>))

\* sync_sales_order without its lookup of an existing Sales Order.
sync_sales_order_unguarded(order, order_setting, docs, invoice_made, note_made) ==
    after_create_order(docs, order,
                       create_order(order, order_setting, sales_orders_of(docs)),
                       invoice_made, note_made, TRUE)

sync_sales_order(order, order_setting, docs, invoice_made, note_made) ==
    IF open_sales_order_exists(docs, order["id"])
    THEN Handled(docs, <<"Invalid">>)
    ELSE after_create_order(docs, order,
                            create_order(order, order_setting, sales_orders_of(docs)),
                            invoice_made, note_made, TRUE)

\* frappe.db.set_value(doctype, name, ORDER_STATUS_FIELD, order_status)
set_order_status(doc, order_status) ==
    dict_set(doc, "shopify_order_status", order_status)

cancel_order(order, docs) ==
    LET order_id == order["id"]
        order_status == order["financial_status"]
        Mine(d) == d["shopify_order_id"] = order_id
        \* get_sales_order and the get_value of the invoice: the first match
        First(rows) == CHOOSE i \in 1..Len(rows) :
                            Mine(rows[i]) /\ \A j \in 1..(i - 1) : ~Mine(rows[j])
        has_order == \E i \in 1..Len(docs.sales_orders) : Mine(docs.sales_orders[i])
        has_invoice == \E i \in 1..Len(docs.sales_invoices) : Mine(docs.sales_invoices[i])
        has_notes == \E i \in 1..Len(docs.delivery_notes) : Mine(docs.delivery_notes[i])
    IN  IF ~has_order THEN Handled(docs, <<"Invalid">>)
        ELSE LET so == First(docs.sales_orders)
                 cancels == ~has_invoice /\ ~has_notes
                                /\ docs.sales_orders[so]["docstatus"] = 1
             IN  Handled(
                    [sales_orders |->
                        [i \in 1..Len(docs.sales_orders) |->
                            IF i # so THEN docs.sales_orders[i]
                            ELSE IF cancels
                            THEN [docs.sales_orders[i] EXCEPT !["docstatus"] = 2]
                            ELSE set_order_status(docs.sales_orders[i], order_status)],
                     sales_invoices |->
                        [i \in 1..Len(docs.sales_invoices) |->
                            IF has_invoice /\ i = First(docs.sales_invoices)
                            THEN set_order_status(docs.sales_invoices[i], order_status)
                            ELSE docs.sales_invoices[i]],
                     delivery_notes |->
                        [i \in 1..Len(docs.delivery_notes) |->
                            IF Mine(docs.delivery_notes[i])
                            THEN set_order_status(docs.delivery_notes[i], order_status)
                            ELSE docs.delivery_notes[i]]],
                    <<"Success">>)

\* The orders Shopify sends: one that is submitted, one left a draft by a
\* total mismatch, one whose only item is missing from the catalog, and one
\* with a line of quantity 0.
ZeroQuantityLine ==
    [sku |-> <<"A">>, item_name |-> "item", price |-> 100 * Unit, quantity |-> 0,
     discount_allocations |-> NoAllocations, tax_lines |-> <<>>]

SyncPayloads ==
    {Order(l, <<>>, <<>>, WashingtonAddress, f[1], f[2]) :
        l \in {<<PlainLine>>, <<MissingLine>>, <<ZeroQuantityLine>>},
        f \in {<<"pending", <<>>>>, <<"paid", <<"fulfillment">>>>}}
    \cup
    {Order(<<ScenarioLine>>,
           <<[title |-> "Standard", price |-> 15 * Unit, discount_allocations |-> <<>>]>>,
           <<[title |-> "Washington State Tax", rate |-> 8]>>,
           WashingtonAddress, f[1], f[2]) :
        f \in {<<"pending", <<>>>>, <<"paid", <<"fulfillment">>>>}}
    \cup
    {[Order(<<PlainLine>>, <<>>, <<>>, WashingtonAddress, "pending", <<>>)
        EXCEPT !.id = 1002]}

\* The payload of orders/cancelled.
CancelPayloads ==
    {[id |-> n, financial_status |-> "refunded"] : n \in {1001, 1002}}

SyncInit ==
    /\ AccountIdle
    /\ CalcIdle
    /\ DayIdle
    /\ HookIdle
    /\ discount_field = "shopify_item_discount"
    /\ setting = [add_shipping_as_item |-> 0, shipping_item |-> "Shipping"]
    /\ shopify_order = NoOrder
    /\ documents = [sales_orders |-> <<>>, sales_invoices |-> <<>>,
                    delivery_notes |-> <<>>]
    /\ shopify_log = <<>>
    /\ called = "none"
    /\ result = NoResult

\* A handler runs on a payload: the payload, the documents before the call
\* (kept in result) and after it, and the statuses written to its log.
Handle(name, payload, handled) ==
    /\ called' = name
    /\ shopify_order' = payload
    /\ result' = [raised |-> FALSE, before |-> documents]
    /\ documents' = handled.documents
    /\ shopify_log' = handled.statuses
    /\ UNCHANGED <<calcVars, setting, discount_field, accountVars, dayVars, hookVars>>

SyncSalesOrder ==
    \E payload \in SyncPayloads, invoice_made, note_made \in BOOLEAN :
        Handle("sync_sales_order", payload,
               sync_sales_order(payload, setting, documents, invoice_made, note_made))

\* create_order called on its own; an exception it raises goes to its caller.
CreateOrderAlone ==
    \E payload \in SyncPayloads, invoice_made, note_made \in BOOLEAN :
        Handle("create_order", payload,
               after_create_order(documents, payload,
                                  create_order(payload, setting,
                                               sales_orders_of(documents)),
                                  invoice_made, note_made, FALSE))

CancelOrder ==
    \E payload \in CancelPayloads :
        Handle("cancel_order", payload, cancel_order(payload, documents))

SyncNext ==
    \/ SyncSalesOrder
    \/ CreateOrderAlone
    \/ CancelOrder

SpecSync == SyncInit /\ [][SyncNext]_vars

----------------------------------------------------------------------------
(* Properties of the handlers, under SpecSync. *)

\* The documents of one kind that carry the order id of the last payload,
\* before the call and after it.
OrderId == shopify_order["id"]
Before(kind) == with_order_id(result.before[kind], OrderId)
After(kind) == with_order_id(documents[kind], OrderId)

\* The status the handler left in the log of its request.
FinalStatus == IF shopify_log = <<>> THEN "None" ELSE shopify_log[Len(shopify_log)]

\* C14: whatever calls of sync_sales_order, create_order and cancel_order
\* were made, one at a time, at most one Sales Order exists per Shopify order
\* id; and a sync_sales_order for an id that has a Sales Order that is not
\* cancelled creates no Sales Order, invoice or delivery note and logs
\* "Invalid".
C14_OneSalesOrderPerOrderId ==
    called \in {"sync_sales_order", "create_order", "cancel_order"}
    => /\ \A i, j \in 1..Len(documents.sales_orders) :
            documents.sales_orders[i]["shopify_order_id"]
                = documents.sales_orders[j]["shopify_order_id"] => i = j
       /\ (/\ called = "sync_sales_order"
           /\ \E i \in 1..Len(Before("sales_orders")) :
                 Before("sales_orders")[i]["docstatus"] \in {0, 1})
          => /\ documents = result.before
             /\ shopify_log = <<"Invalid">>

\* A paid and fulfilled order synced again while its Sales Order stands.
C14_Witness ==
    /\ called = "sync_sales_order"
    /\ shopify_order["financial_status"] = "paid"
    /\ shopify_order["fulfillments"] # <<>>
    /\ Len(Before("sales_orders")) = 1
    /\ Before("sales_orders")[1]["docstatus"] = 1
    /\ Before("sales_invoices") = <<>>
    /\ documents = result.before
    /\ shopify_log = <<"Invalid">>

\* C16: cancel_order cancels the Sales Order of the order exactly when no
\* Sales Invoice and no Delivery Note exist for the order id; when one
\* exists the Sales Order is not cancelled and the order status is recorded
\* on the Sales Order and on every such invoice and delivery note; when no
\* Sales Order exists nothing is changed and "Invalid" is logged.
C16_CancelsUnlessInvoicedOrDelivered ==
    called = "cancel_order"
    => LET Recorded(kind) ==
               \A i \in 1..Len(After(kind)) :
                   Get(After(kind)[i], "shopify_order_status", "")
                       = shopify_order["financial_status"]
       IN  IF Before("sales_orders") = <<>>
           THEN documents = result.before /\ shopify_log = <<"Invalid">>
           ELSE IF Before("sales_invoices") = <<>> /\ Before("delivery_notes") = <<>>
           THEN After("sales_orders")[1]["docstatus"] = 2
           ELSE /\ After("sales_orders")[1]["docstatus"]
                       = Before("sales_orders")[1]["docstatus"]
                /\ Recorded("sales_orders")
                /\ Recorded("sales_invoices")
                /\ Recorded("delivery_notes")

\* What the code does: it cancels a Sales Order only if it is submitted; one
\* that is a draft (or cancelled already) gets the order status instead.
C16_CancelsSubmittedOnly ==
    called = "cancel_order"
    => LET Recorded(kind) ==
               \A i \in 1..Len(After(kind)) :
                   Get(After(kind)[i], "shopify_order_status", "")
                       = shopify_order["financial_status"]
       IN  IF Before("sales_orders") = <<>>
           THEN documents = result.before /\ shopify_log = <<"Invalid">>
           ELSE /\ shopify_log = <<"Success">>
                /\ Len(After("sales_orders")) = 1
                /\ IF /\ Before("sales_invoices") = <<>>
                      /\ Before("delivery_notes") = <<>>
                      /\ Before("sales_orders")[1]["docstatus"] = 1
                   THEN After("sales_orders")[1]["docstatus"] = 2
                   ELSE /\ After("sales_orders")[1]["docstatus"]
                               = Before("sales_orders")[1]["docstatus"]
                        /\ Recorded("sales_orders")
                        /\ Recorded("sales_invoices")
                        /\ Recorded("delivery_notes")

\* C17: sync_sales_order never reports a silent drop: when the final status
\* of its log is "Success", a Sales Order of the payload's order id exists;
\* when the creation is skipped or fails, the final status is "Error", and no
\* "Success" is written after an "Error".
C17_SuccessMeansSalesOrderExists ==
    called = "sync_sales_order"
    => /\ FinalStatus = "Success" => After("sales_orders") # <<>>
       /\ After("sales_orders") = <<>> => FinalStatus = "Error"
       /\ \A i, j \in 1..Len(shopify_log) :
            (shopify_log[i] = "Error" /\ shopify_log[j] = "Success") => j < i

\* What holds: an exception raised while the order is created ends in
\* "Error" with the documents as they were.
C17_ExceptionEndsInError ==
    (/\ called = "sync_sales_order"
     /\ Before("sales_orders") = <<>>
     /\ get_order_items(expand_lines(shopify_order["line_items"], 1)).raised)
    => /\ shopify_log = <<"Error">>
       /\ documents = result.before

----------------------------------------------------------------------------
(* connection.py: store_request_data, _validate_request, process_request.  *)
(*                                                                         *)
(* A str is [str |-> text] and a bytes value [bytes |-> content].  The     *)
(* digest of HMAC-SHA256 is the key and the message under a tag: two       *)
(* digests are equal only if both their keys and their messages are.       *)

MaxWebhooks == 2   \* most webhook requests received

\* str.encode("utf-8")
encode(text) == [bytes |-> text.str]

\* hmac.new(key, msg, hashlib.sha256).digest()
hmac_sha256(key, msg) == [bytes |-> <<"HMAC-SHA256", key.bytes, msg.bytes>>]

\* base64.b64encode(digest)
b64encode(digest) == [bytes |-> <<"base64", digest.bytes>>]

\* What a raise or a return of the functions below leaves: the Shopify Log
\* and the queue of background jobs.
Left(raised, msg, logs, queue) ==
    [raised |-> raised, msg |-> msg, logs |-> logs, queue |-> queue]

\* _validate_request checking only that the header is there.
validate_request_header_present(data, hmac_header, secret_key, logs, queue) ==
    IF ~IsDict(secret_key)
    THEN Left(TRUE, "AttributeError", logs, queue)
    ELSE IF ~IsDict(hmac_header) \/ hmac_header.str = <<>>
    THEN Left(TRUE, "ValidationError", Append(logs, [status |-> "Error"]), queue)
    ELSE Left(FALSE, "", logs, queue)

\* _validate_request(data, hmac_header); secret_key is settings.shared_secret
validate_request(data, hmac_header, secret_key, logs, queue) ==
    IF ~IsDict(secret_key)
    \* secret_key.encode on None
    THEN Left(TRUE, "AttributeError", logs, queue)
    ELSE LET sig == b64encode(hmac_sha256(encode(secret_key), encode(data))) IN
         IF ~IsDict(hmac_header) \/ hmac_header.str = <<>>
         THEN Left(TRUE, "ValidationError", Append(logs, [status |-> "Error"]), queue)
         ELSE IF sig # encode(hmac_header)
         THEN Left(TRUE, "ValidationError", Append(logs, [status |-> "Error"]), queue)
         ELSE Left(FALSE, "", logs, queue)

\* The request bodies that are JSON, with the value json.loads gives.
JsonBodies == <<"{", "id", ":", "1001", "}">> :> [id |-> 1001]

\* json.loads(frappe.request.data)
json_loads(data) ==
    IF data.str \in DOMAIN JsonBodies THEN Return(JsonBodies[data.str])
    ELSE Throw("JSONDecodeError")

\* EVENT_MAPPER: the handler of each topic
EVENT_MAPPER ==
    ("orders/create" :> "ecommerce_integrations.shopify.order.sync_sales_order")
    @@ ("orders/cancelled" :> "ecommerce_integrations.shopify.order.cancel_order")

\* process_request(data, event): the log, then the job named after the log
process_request(data, event, logs, queue) ==
    IF event \notin DOMAIN EVENT_MAPPER
    THEN Left(TRUE, "KeyError", logs, queue)
    ELSE Left(FALSE, "",
              Append(logs, [status |-> "Queued", method |-> EVENT_MAPPER[event]]),
              Append(queue, [method |-> EVENT_MAPPER[event],
                             payload |-> data,
                             request_id |-> Len(logs) + 1]))

\* What follows the validation in _store_request_data.
after_validation(req, valid) ==
    IF valid.raised THEN valid
    ELSE LET data == json_loads(req.data) IN
         IF data.raised THEN Left(TRUE, data.msg, valid.logs, valid.queue)
         ELSE process_request(data.value, req.topic, valid.logs, valid.queue)

\* store_request_data: True unless an exception other than the
\* ValidationError of _validate_request came out of _store_request_data.
store_request_data(req, secret_key, logs, queue) ==
    LET left == after_validation(
                    req, validate_request(req.data, req.hmac_header, secret_key,
                                          logs, queue))
    IN  [value |-> ~left.raised \/ left.msg = "ValidationError",
         logs |-> left.logs,
         queue |-> left.queue]

\* The header Shopify computes for a body with a secret.
Signature(secret_key, data) ==
    [str |-> b64encode(hmac_sha256(encode(secret_key), encode(data))).bytes]

SharedSecret == [str |-> "shpss_1"]
Bodies == {[str |-> <<"{", "id", ":", "1001", "}">>], [str |-> <<"id", "=", "1001">>]}
Topics == {"orders/create", "orders/cancelled", "products/update"}

\* Requests with no header, an empty one, Shopify's, one computed with
\* another secret and one computed for another body.
Requests ==
    {[data |-> d, hmac_header |-> h, topic |-> t] :
        d \in Bodies, t \in Topics,
        h \in {PyNone, [str |-> <<>>]}
              \cup {Signature(k, b) : k \in {SharedSecret, [str |-> "guess"]},
                                      b \in Bodies}}

HookInit ==
    /\ AccountIdle
    /\ CalcIdle
    /\ DayIdle
    /\ documents = NoDocuments
    /\ shopify_log = <<>>
    /\ discount_field = "shopify_item_discount"
    /\ shopify_order = NoOrder
    /\ setting \in {[shared_secret |-> SharedSecret], [shared_secret |-> PyNone]}
    /\ request = <<>>
    /\ job_queue = <<>>
    /\ called = "none"
    /\ result = NoResult

\* One webhook request served; result keeps the value returned and the
\* queue as it was before the request.
StoreRequestData ==
    /\ Len(request) < MaxWebhooks
    /\ \E req \in Requests :
         \E out \in {store_request_data(req, setting["shared_secret"],
                                        shopify_log, job_queue)} :
            /\ request' = Append(request, req)
            /\ called' = "store_request_data"
            /\ result' = [raised |-> FALSE, value |-> out.value,
                          before |-> job_queue]
            /\ shopify_log' = out.logs
            /\ job_queue' = out.queue
    /\ UNCHANGED <<calcVars, orderVars, accountVars, dayVars, documents>>

HookNext == StoreRequestData

SpecHook == HookInit /\ [][HookNext]_vars

----------------------------------------------------------------------------
(* Properties of the webhook endpoint, under SpecHook. *)

Served == request[Len(request)]

\* The request served carries the header Shopify computes for its body with
\* the shared secret: base64(HMAC-SHA256(shared secret, body)).
Authentic ==
    /\ IsDict(setting["shared_secret"])
    /\ IsDict(Served.hmac_header)
    /\ Served.hmac_header.str =
          <<"base64", <<"HMAC-SHA256", setting["shared_secret"].str, Served.data.str>>>>

\* The jobs enqueued and the logs created by process_request for the
\* request served.
JobsAdded == SubSeq(job_queue, Len(result.before) + 1, Len(job_queue))
QueuedLogs == {i \in 1..Len(shopify_log) : shopify_log[i]["status"] = "Queued"}

\* C15: a webhook request reaches process_request (a log created, a job
\* enqueued) only if its X-Shopify-Hmac-Sha256 header equals
\* base64(HMAC-SHA256(shared secret, body)); a request whose header is
\* missing or does not match never enqueues a job; and each accepted request
\* (one of Shopify's: a JSON body, a topic that has a handler) enqueues
\* exactly one job, for the handler mapped to its topic.
C15_OnlyAuthenticRequestsEnqueue ==
    called = "store_request_data"
    => /\ SubSeq(job_queue, 1, Len(result.before)) = result.before
       /\ Cardinality(QueuedLogs) = Len(job_queue)
       /\ JobsAdded # <<>> => Authentic
       /\ ~Authentic => JobsAdded = <<>>
       /\ (/\ Authentic
           /\ Served.data.str \in DOMAIN JsonBodies
           /\ Served.topic \in DOMAIN EVENT_MAPPER)
          => /\ Len(JobsAdded) = 1
             /\ JobsAdded[1]["method"] = EVENT_MAPPER[Served.topic]
             /\ JobsAdded[1]["payload"] = JsonBodies[Served.data.str]
             /\ JobsAdded[1]["request_id"] \in QueuedLogs
             /\ shopify_log[JobsAdded[1]["request_id"]]["method"]
                    = EVENT_MAPPER[Served.topic]

\* A cancellation accepted after a request signed with another secret was
\* turned away: one job, for cancel_order.
C15_Witness ==
    /\ called = "store_request_data"
    /\ Len(request) = 2
    /\ IsDict(request[1].hmac_header)
    /\ request[1].hmac_header.str # <<>>
    /\ result.before = <<>>
    /\ Authentic
    /\ Served.topic = "orders/cancelled"
    /\ Len(job_queue) = 1
    /\ job_queue[1]["method"] = "ecommerce_integrations.shopify.order.cancel_order"
    /\ shopify_log[1]["status"] = "Error"

\* An authentic request whose body is not JSON or whose topic has no handler
\* enqueues nothing, and store_request_data returns False.
C15_NoJobWithoutHandlerOrJson ==
    (/\ called = "store_request_data"
     /\ Authentic
     /\ (Served.data.str \notin DOMAIN JsonBodies
            \/ Served.topic \notin DOMAIN EVENT_MAPPER))
    => /\ JobsAdded = <<>>
       /\ result.value = FALSE

====
